---- MODULE Spec2Model ----
(***************************************************************************)
(* Model of dashboard.py: show_dashboard starts five probe threads, each   *)
(* of which calls one probe function and stores its return value in the    *)
(* shared dict `data`; the main thread reads the synchronous metrics,      *)
(* joins the threads and prints the dashboard.                             *)
(***************************************************************************)
EXTENDS Integers, Sequences, FiniteSets, TLC

VARIABLES
    pcMain,    \* position of the main thread inside show_dashboard
    idx,       \* index of the `for t in threads` loop the main thread is in
    pc,        \* position of every probe thread
    ext,       \* what the external call of every probe did
    environ,   \* os.environ of the process
    data,      \* the shared dict `data`
    calls,     \* number of invocations of every probe function
    writes,    \* number of completed data.update calls of every probe thread
    screen,    \* what show_dashboard printed
    world,     \* which answers the outside world gives to the probes
    cycle,     \* number of the current run of show_dashboard
    prev,      \* results and snapshot of the previous completed run
    scan,      \* a call of get_recent_projects on its own: input and result
    rel,       \* a call of get_relative_time on its own: input and result
    disk,      \* Windows Terminal's settings.json and settings.json.bak
    mem,       \* TerminalManager.data, the settings loaded in memory
    spc,       \* position of the script that edits the settings
    orig,      \* settings.json as it was before the first run
    runs,      \* number of the current run of the setup script
    last,      \* the last call of a TerminalManager method and its arguments
    job,       \* a build script and what it finds on the machine
    bpc,       \* position of the build script
    events,    \* the subprocesses the build script has run, in order
    status     \* exit status of the build script

setupVars == <<disk, mem, spc, orig, runs, last>>

buildVars == <<job, bpc, events, status>>

\* what a step inside one run of show_dashboard leaves alone
otherVars == <<scan, rel, setupVars, buildVars>>
frame == <<world, cycle, prev, otherVars>>

dashVars == <<pcMain, idx, pc, ext, environ, data, calls, writes, screen>>

vars == <<dashVars, frame>>

(***************************************************************************)
(* Bounds of the model.                                                    *)
(***************************************************************************)
MaxOut == 2        \* longest output of a gh command, in characters

(***************************************************************************)
(* Python values: a bool, a str (sequence of characters) or a list.        *)
(***************************************************************************)
PyBool(b) == [bool |-> b]
PyStr(s) == [str |-> s]
PyList(l) == [list |-> l]

\* Python truthiness, as used by `if data["online"]:`, `if data["prs"]:`.
Truthy(v) ==
    IF "bool" \in DOMAIN v THEN v.bool
    ELSE IF "str" \in DOMAIN v THEN v.str # <<>>
    ELSE v.list # <<>>

\* dict.update({k: v}): sets the key, adding it when it is absent.
DictUpdate(d, k, v) ==
    [x \in DOMAIN d \cup {k} |-> IF x = k THEN v ELSE d[x]]

(***************************************************************************)
(* str.strip() and str.split("\n") on sequences of characters.             *)
(***************************************************************************)
IsSpace(c) == c \in {" ", "\n", "\t"}

RECURSIVE LStrip(_)
LStrip(s) ==
    IF s = <<>> THEN s
    ELSE IF IsSpace(Head(s)) THEN LStrip(Tail(s)) ELSE s

RECURSIVE RStrip(_)
RStrip(s) ==
    IF s = <<>> THEN s
    ELSE IF IsSpace(s[Len(s)]) THEN RStrip(SubSeq(s, 1, Len(s) - 1)) ELSE s

Strip(s) == RStrip(LStrip(s))

RECURSIVE Split(_, _)
Split(s, sep) ==
    IF \E i \in 1..Len(s) : s[i] = sep
    THEN LET i == CHOOSE j \in 1..Len(s) :
                      s[j] = sep /\ \A k \in 1..(j - 1) : s[k] # sep
         IN  <<SubSeq(s, 1, i - 1)>> \o Split(SubSeq(s, i + 1, Len(s)), sep)
    ELSE <<s>>

(***************************************************************************)
(* Results of an external process: it exits with a code and an output, or  *)
(* launching it raises.                                                    *)
(***************************************************************************)
Exit(code, out) == [kind |-> "exit", code |-> code, out |-> out]
Raised == [kind |-> "raise"]
NoCall == [kind |-> "none"]

\* subprocess.check_call / check_output return only for exit code 0.
Returned(o) == o.kind = "exit" /\ o.code = 0

(***************************************************************************)
(* The probe functions.                                                    *)
(***************************************************************************)
\* check_connection without its try/except: the error of ping escapes
check_connection_unguarded(o) ==
    IF Returned(o) THEN PyBool(TRUE) ELSE [exc |-> "CalledProcessError"]

check_connection(o) == PyBool(Returned(o))

DefaultUser == <<"D", "e", "v">>

get_gh_username(o, env) ==
    IF Returned(o)
    THEN PyStr(Strip(o.out))
    ELSE PyStr(IF "USERNAME" \in DOMAIN env THEN env["USERNAME"] ELSE DefaultUser)

get_gh_data(o) ==
    IF Returned(o)
    THEN LET out == Strip(o.out)
         IN  IF out # <<>> THEN PyList(Split(out, "\n")) ELSE PyList(<<>>)
    ELSE PyList(<<>>)

\* projects.sort(key=time, reverse=True): stable, most recent first.
RECURSIVE InsertByTimeAscending(_, _)
\* InsertByTime for a sort without reverse=True
InsertByTimeAscending(x, s) ==
    IF s = <<>> THEN <<x>>
    ELSE IF Head(s).time <= x.time
         THEN <<Head(s)>> \o InsertByTimeAscending(x, Tail(s))
         ELSE <<x>> \o s

RECURSIVE InsertByTime(_, _)
InsertByTime(x, s) ==
    IF s = <<>> THEN <<x>>
    ELSE IF Head(s).time >= x.time
         THEN <<Head(s)>> \o InsertByTime(x, Tail(s))
         ELSE <<x>> \o s

RECURSIVE SortByTime(_)
SortByTime(s) ==
    IF s = <<>> THEN <<>>
    ELSE InsertByTime(s[Len(s)], SortByTime(SubSeq(s, 1, Len(s) - 1)))

RECURSIVE ScanRepos(_, _, _)
\* the iterdir loop; an exception at entry fail_at ends it with what was found
ScanRepos(items, k, fail_at) ==
    IF k > Len(items) \/ k = fail_at THEN <<>>
    ELSE (IF items[k].is_dir /\ items[k].has_git
          THEN <<[name |-> items[k].name, time |-> items[k].mtime]>>
          ELSE <<>>) \o ScanRepos(items, k + 1, fail_at)

DefaultLimit == 3

get_recent_projects(fs, limit) ==
    IF ~fs.exists THEN PyList(<<>>)
    ELSE LET projects == SortByTime(ScanRepos(fs.items, 1, fs.fail_at))
         IN  PyList(SubSeq(projects, 1,
                           IF Len(projects) < limit THEN Len(projects) ELSE limit))

(***************************************************************************)
(* The registry: the `threads` list and the key each thread writes.        *)
(***************************************************************************)
Threads == <<"online", "handle", "projects", "prs", "issues">>

N == Len(Threads)

ProbeNames == {Threads[k] : k \in 1..N}

\* Slot with the `prs` lambda writing a misspelt key
SlotTypo(p) == IF p = "prs" THEN "pr" ELSE p

\* Slot with the `issues` lambda writing the key of the `prs` lambda
SlotShared(p) == IF p = "issues" THEN "prs" ELSE p

\* the key of `data` the lambda of thread p updates
Slot(p) == p

InitialData ==
    [prs |-> PyList(<<>>), issues |-> PyList(<<>>), projects |-> PyList(<<>>),
     online |-> PyBool(FALSE), handle |-> PyStr(<<".", ".", ".">>)]

\* the value the lambda of thread p passes to data.update
ProbeValue(p, o, env) ==
    CASE p = "online" -> check_connection(o)
      [] p = "handle" -> get_gh_username(o, env)
      [] p = "projects" -> get_recent_projects(o, DefaultLimit)
      [] OTHER -> get_gh_data(o)

(***************************************************************************)
(* What the outside world can answer to each probe.                        *)
(***************************************************************************)
GhChars == {"a", "\n"}

GhOutputs == UNION {[1..n -> GhChars] : n \in 0..MaxOut}

Entry(n, d, g, t) == [name |-> n, is_dir |-> d, has_git |-> g, mtime |-> t]

ProjectRoots ==
    {[exists |-> FALSE, items |-> <<>>, fail_at |-> 0],
     [exists |-> TRUE, fail_at |-> 0,
      items |-> <<Entry("old", TRUE, TRUE, 1), Entry("docs", TRUE, FALSE, 5),
                  Entry("new", TRUE, TRUE, 2)>>],
     [exists |-> TRUE, fail_at |-> 3,
      items |-> <<Entry("old", TRUE, TRUE, 1), Entry("docs", TRUE, FALSE, 5),
                  Entry("new", TRUE, TRUE, 2)>>]}

Outcomes(p) ==
    CASE p = "online" -> {Exit(0, <<>>), Exit(1, <<>>), Raised}
      [] p = "handle" -> {Exit(0, <<"u", "\n">>), Exit(1, <<>>)}
      [] p = "projects" -> ProjectRoots
      [] OTHER -> {Exit(0, out) : out \in GhOutputs} \cup {Exit(1, <<>>)}

\* Fixed worlds, in which every probe gets one answer: everything works,
\* everything fails, the queries succeed and find nothing.
GoodWorld ==
    [online |-> Exit(0, <<>>), handle |-> Exit(0, <<"u", "\n">>),
     projects |-> [exists |-> TRUE, fail_at |-> 0,
                   items |-> <<Entry("old", TRUE, TRUE, 1),
                               Entry("new", TRUE, TRUE, 2)>>],
     prs |-> Exit(0, <<"a">>), issues |-> Exit(0, <<"a", "\n">>)]

BadWorld ==
    [online |-> Raised, handle |-> Exit(1, <<>>),
     projects |-> [exists |-> FALSE, items |-> <<>>, fail_at |-> 0],
     prs |-> Exit(1, <<>>), issues |-> Exit(1, <<>>)]

QuietWorld ==
    [online |-> Exit(0, <<>>), handle |-> Exit(0, <<"u", "\n">>),
     projects |-> [exists |-> TRUE, fail_at |-> 0, items |-> <<>>],
     prs |-> Exit(0, <<>>), issues |-> Exit(0, <<"\n">>)]

FixedWorlds == {"good", "bad", "quiet"}

\* the answers probe p can get in world w
Answers(w, p) ==
    CASE w = "good" -> {GoodWorld[p]}
      [] w = "bad" -> {BadWorld[p]}
      [] w = "quiet" -> {QuietWorld[p]}
      [] OTHER -> Outcomes(p)

\* subprocess.check_output is called without a timeout in these probes;
\* ping is bounded by -w 1000.
MayHang == {"handle", "prs", "issues"}

Environs == {[USERNAME |-> <<"w">>], [HOME |-> <<"h">>]}

(***************************************************************************)
(* The rendered dashboard (the part that depends on `data`).               *)
(***************************************************************************)
Text(t) == [text |-> t]

GhSection(d, key, title, none) ==
    <<Text(title)>> \o
    (IF Truthy(d[key])
     THEN [k \in 1..Len(d[key].list) |-> [line |-> d[key].list[k]]]
     ELSE <<Text(none)>>)

\* RenderScreen that prints the two GitHub sections whatever `online` is
RenderScreenAlwaysGitHub(d) ==
    [status |-> IF Truthy(d["online"]) THEN "ONLINE" ELSE "OFFLINE",
     welcome |-> d["handle"].str,
     projects |-> IF Truthy(d["projects"])
                  THEN [k \in 1..Len(d["projects"].list) |->
                           [line |-> d["projects"].list[k].name]]
                  ELSE <<Text("No git repos found.")>>,
     github |-> GhSection(d, "prs", "PULL REQUESTS", "No open PRs")
                \o GhSection(d, "issues", "ISSUES", "No pending issues")]

RenderScreen(d) ==
    [status |-> IF Truthy(d["online"]) THEN "ONLINE" ELSE "OFFLINE",
     welcome |-> d["handle"].str,
     projects |-> IF Truthy(d["projects"])
                  THEN [k \in 1..Len(d["projects"].list) |->
                           [line |-> d["projects"].list[k].name]]
                  ELSE <<Text("No git repos found.")>>,
     github |-> IF Truthy(d["online"])
                THEN GhSection(d, "prs", "PULL REQUESTS", "No open PRs")
                     \o GhSection(d, "issues", "ISSUES", "No pending issues")
                ELSE <<Text("GITHUB DISCONNECTED")>>]

(***************************************************************************)
(* Initial state: show_dashboard has built `data` and the thread objects.  *)
(***************************************************************************)
NoPrev == [rendered |-> FALSE]

NoScan == [state |-> "idle"]
NoRel == [call |-> "idle"]

\* show_dashboard has just been entered: lines 179-191
DashInit ==
    /\ pcMain = "start"
    /\ idx = 1
    /\ pc = [p \in ProbeNames |-> "new"]
    /\ ext = [p \in ProbeNames |-> NoCall]
    /\ environ \in Environs
    /\ data = InitialData
    /\ calls = [p \in ProbeNames |-> 0]
    /\ writes = [p \in ProbeNames |-> 0]
    /\ screen = <<>>
    /\ cycle = 1
    /\ prev = NoPrev

NoFile == [file |-> "absent"]
NoMgr == [mgr |-> "none"]
NoMethod == [call |-> "none"]

SetupIdle ==
    /\ disk = [settings |-> NoFile, bak |-> NoFile]
    /\ mem = NoMgr
    /\ spc = "idle"
    /\ orig = NoFile
    /\ runs = 0
    /\ last = NoMethod

NoJob == [script |-> "none"]
Running == [running |-> TRUE]

BuildIdle ==
    /\ job = NoJob
    /\ bpc = "idle"
    /\ events = <<>>
    /\ status = Running

OthersIdle ==
    /\ scan = NoScan
    /\ rel = NoRel
    /\ SetupIdle
    /\ BuildIdle
    /\ BuildIdle

Init ==
    /\ DashInit
    /\ world = "any"
    /\ OthersIdle

(***************************************************************************)
(* The main thread.                                                        *)
(***************************************************************************)
\* StartThread that runs the threads one after the other (start, then wait)
StartThreadSerial ==
    /\ pcMain = "start"
    /\ pc[Threads[idx]] = "new"
    /\ idx > 1 => pc[Threads[idx - 1]] = "done"
    /\ pc' = [pc EXCEPT ![Threads[idx]] = "running"]
    /\ calls' = [calls EXCEPT ![Threads[idx]] = @ + 1]
    /\ IF idx < N
       THEN idx' = idx + 1 /\ pcMain' = pcMain
       ELSE idx' = 1 /\ pcMain' = "sync"
    /\ UNCHANGED <<ext, environ, data, writes, screen, frame>>

\* t.start() for the next thread of the list: the thread runs its lambda
StartThread ==
    /\ pcMain = "start"
    /\ pc[Threads[idx]] = "new"
    /\ pc' = [pc EXCEPT ![Threads[idx]] = "running"]
    /\ calls' = [calls EXCEPT ![Threads[idx]] = @ + 1]
    /\ IF idx < N
       THEN idx' = idx + 1 /\ pcMain' = pcMain
       ELSE idx' = 1 /\ pcMain' = "sync"
    /\ UNCHANGED <<ext, environ, data, writes, screen, frame>>

\* t.start() raises (no thread can be created): show_dashboard is left
StartThreadFails ==
    /\ pcMain = "start"
    /\ pcMain' = "failed"
    /\ UNCHANGED <<idx, pc, ext, environ, data, calls, writes, screen, frame>>

\* the synchronous metrics (psutil, disk usage, sensor), read without try
SyncStats ==
    /\ pcMain = "sync"
    /\ pcMain' = "join"
    /\ UNCHANGED <<idx, pc, ext, environ, data, calls, writes, screen, frame>>

SyncStatsFails ==
    /\ pcMain = "sync"
    /\ pcMain' = "failed"
    /\ UNCHANGED <<idx, pc, ext, environ, data, calls, writes, screen, frame>>

\* Join that returns without the thread having terminated
JoinNoWait ==
    /\ pcMain = "join"
    /\ IF idx < N
       THEN idx' = idx + 1 /\ pcMain' = pcMain
       ELSE idx' = 1 /\ pcMain' = "render"
    /\ UNCHANGED <<pc, ext, environ, data, calls, writes, screen, frame>>

\* t.join() for the next thread of the list: returns once it has terminated
Join ==
    /\ pcMain = "join"
    /\ pc[Threads[idx]] = "done"
    /\ IF idx < N
       THEN idx' = idx + 1 /\ pcMain' = pcMain
       ELSE idx' = 1 /\ pcMain' = "render"
    /\ UNCHANGED <<pc, ext, environ, data, calls, writes, screen, frame>>

\* the prints of the UI section
Render ==
    /\ pcMain = "render"
    /\ screen' = RenderScreen(data)
    /\ pcMain' = "done"
    /\ UNCHANGED <<idx, pc, ext, environ, data, calls, writes, frame>>

(***************************************************************************)
(* A probe thread: call the probe function, then data.update({key: value}). *)
(***************************************************************************)
\* ProbeReturn that calls the probe function again after a failed call
ProbeReturnRetry(p) ==
    /\ pc[p] = "running"
    /\ \E o \in Answers(world, p) :
          /\ ext' = [ext EXCEPT ![p] = o]
          /\ IF "kind" \in DOMAIN o /\ o.kind = "exit" /\ o.code # 0 /\ calls[p] < 2
             THEN pc' = pc /\ calls' = [calls EXCEPT ![p] = @ + 1]
             ELSE pc' = [pc EXCEPT ![p] = "update"] /\ calls' = calls
    /\ UNCHANGED <<pcMain, idx, environ, data, writes, screen, frame>>

\* the external call of the probe answers and the probe function returns
ProbeReturn(p) ==
    /\ pc[p] = "running"
    /\ \E o \in Answers(world, p) : ext' = [ext EXCEPT ![p] = o]
    /\ pc' = [pc EXCEPT ![p] = "update"]
    /\ UNCHANGED <<pcMain, idx, environ, data, calls, writes, screen, frame>>

\* the external call never answers
ProbeHang(p) ==
    /\ pc[p] = "running"
    /\ p \in MayHang
    /\ pc' = [pc EXCEPT ![p] = "hung"]
    /\ UNCHANGED <<pcMain, idx, ext, environ, data, calls, writes, screen, frame>>

\* DataUpdate that rebinds `data` to a fresh dict holding only its own result
DataUpdateReplace(p) ==
    /\ pc[p] = "update"
    /\ data' = DictUpdate(InitialData, Slot(p), ProbeValue(p, ext[p], environ))
    /\ writes' = [writes EXCEPT ![p] = @ + 1]
    /\ pc' = [pc EXCEPT ![p] = "done"]
    /\ UNCHANGED <<pcMain, idx, ext, environ, calls, screen, frame>>

\* data.update({key: value}) completes and the thread terminates
DataUpdate(p) ==
    /\ pc[p] = "update"
    /\ data' = DictUpdate(data, Slot(p), ProbeValue(p, ext[p], environ))
    /\ writes' = [writes EXCEPT ![p] = @ + 1]
    /\ pc' = [pc EXCEPT ![p] = "done"]
    /\ UNCHANGED <<pcMain, idx, ext, environ, calls, screen, frame>>

MainNext ==
    \/ StartThread
    \/ StartThreadFails
    \/ SyncStats
    \/ SyncStatsFails
    \/ Join
    \/ Render

ProbeNext(p) ==
    \/ ProbeReturn(p)
    \/ ProbeHang(p)
    \/ DataUpdate(p)

Next ==
    \/ MainNext
    \/ \E p \in ProbeNames : ProbeNext(p)

Spec == Init /\ [][Next]_vars

\* every thread that can take a step eventually takes one; a hung external
\* call is the choice ProbeHang, after which the thread has no step
FairSpec ==
    /\ Spec
    /\ WF_vars(MainNext)
    /\ \A p \in ProbeNames : WF_vars(ProbeReturn(p)) /\ WF_vars(DataUpdate(p))

(***************************************************************************)
(* Running the script again: a new process calls show_dashboard, which     *)
(* builds a new `data` and new threads; the answers of the world may have  *)
(* changed.                                                                *)
(***************************************************************************)
MaxCycles == 2     \* runs of show_dashboard that are followed

\* CallAgain with `data` kept from the previous call (a module-level dict)
CallAgainKeepData ==
    /\ pcMain = "done"
    /\ cycle < MaxCycles
    /\ prev' = [rendered |-> TRUE, ext |-> ext, data |-> data]
    /\ cycle' = cycle + 1
    /\ world' \in FixedWorlds
    /\ pcMain' = "start"
    /\ idx' = 1
    /\ pc' = [p \in ProbeNames |-> "new"]
    /\ ext' = [p \in ProbeNames |-> NoCall]
    /\ calls' = [p \in ProbeNames |-> 0]
    /\ writes' = [p \in ProbeNames |-> 0]
    /\ screen' = <<>>
    /\ UNCHANGED <<data, environ, otherVars>>

CallAgain ==
    /\ pcMain = "done"
    /\ cycle < MaxCycles
    /\ prev' = [rendered |-> TRUE, ext |-> ext, data |-> data]
    /\ cycle' = cycle + 1
    /\ world' \in FixedWorlds
    /\ pcMain' = "start"
    /\ idx' = 1
    /\ pc' = [p \in ProbeNames |-> "new"]
    /\ ext' = [p \in ProbeNames |-> NoCall]
    /\ data' = InitialData
    /\ calls' = [p \in ProbeNames |-> 0]
    /\ writes' = [p \in ProbeNames |-> 0]
    /\ screen' = <<>>
    /\ UNCHANGED <<environ, otherVars>>

CycleInit ==
    /\ DashInit
    /\ world \in FixedWorlds
    /\ OthersIdle

CycleNext ==
    \/ Next
    \/ CallAgain

CycleSpec == CycleInit /\ [][CycleNext]_vars

(***************************************************************************)
(* get_recent_projects called on its own, for every small directory.       *)
(***************************************************************************)
MaxDirs == 3       \* most entries of PROJECT_ROOT

MTimes == 1..3

\* a repository, a plain directory or a file, with its st_mtime
DirEntries ==
    {Entry(0, d, g, t) : d \in BOOLEAN, g \in BOOLEAN, t \in MTimes}

Listings ==
    UNION {[1..n -> {e \in DirEntries : e.has_git => e.is_dir}] :
              n \in 0..MaxDirs}

\* the entries of a directory have different names: name them by position
Named(l) == [k \in 1..Len(l) |-> [l[k] EXCEPT !.name = k]]

ScanRoots ==
    {[exists |-> FALSE, items |-> <<>>, fail_at |-> 0]} \cup
    {[exists |-> TRUE, items |-> Named(l), fail_at |-> f] :
        l \in Listings, f \in 0..MaxDirs}

Limits == 0..DefaultLimit

ScanInit ==
    /\ DashInit
    /\ world = "any"
    /\ scan = NoScan
    /\ rel = NoRel
    /\ SetupIdle
    /\ BuildIdle

\* get_recent_projects(limit) is called on some PROJECT_ROOT
ScanCall ==
    /\ scan.state = "idle"
    /\ \E fs \in ScanRoots : \E limit \in Limits :
          /\ fs.fail_at <= Len(fs.items)
          /\ scan' = [state |-> "called", fs |-> fs, limit |-> limit]
    /\ UNCHANGED <<dashVars, world, cycle, prev, rel, setupVars, buildVars>>

\* get_recent_projects returns
ScanReturn ==
    /\ scan.state = "called"
    /\ scan' = [state |-> "returned", fs |-> scan.fs, limit |-> scan.limit,
                found |-> IF scan.fs.exists
                          THEN ScanRepos(scan.fs.items, 1, scan.fs.fail_at)
                          ELSE <<>>,
                result |-> get_recent_projects(scan.fs, scan.limit).list]
    /\ UNCHANGED <<dashVars, world, cycle, prev, rel, setupVars, buildVars>>

ScanNext ==
    \/ ScanCall
    \/ ScanReturn

ScanSpec == ScanInit /\ [][ScanNext]_vars

(***************************************************************************)
(* get_relative_time on its own.  The age is now - timestamp, taken in     *)
(* whole seconds; the result is the text f"{number}{unit} ago".            *)
(***************************************************************************)
MaxDelta == 90000   \* oldest age, in seconds, that is followed

Deltas == 0..MaxDelta

get_relative_time(delta) ==
    IF delta < 3600 THEN [number |-> delta \div 60, unit |-> "m", rest |-> " ago"]
    ELSE IF delta < 84600
         THEN [number |-> delta \div 3600, unit |-> "h", rest |-> " ago"]
         ELSE [number |-> delta \div 86400, unit |-> "d", rest |-> " ago"]

RelInit ==
    /\ DashInit
    /\ world = "any"
    /\ scan = NoScan
    /\ rel = NoRel
    /\ SetupIdle
    /\ BuildIdle

\* get_relative_time(timestamp) is called delta seconds after timestamp
RelCall ==
    /\ rel.call = "idle"
    /\ \E delta \in Deltas : rel' = [call |-> "called", delta |-> delta]
    /\ UNCHANGED <<dashVars, world, cycle, prev, scan, setupVars, buildVars>>

\* get_relative_time returns
RelReturn ==
    /\ rel.call = "called"
    /\ rel' = [call |-> "returned", delta |-> rel.delta,
               out |-> get_relative_time(rel.delta)]
    /\ UNCHANGED <<dashVars, world, cycle, prev, scan, setupVars, buildVars>>

RelNext ==
    \/ RelCall
    \/ RelReturn

RelSpec == RelInit /\ [][RelNext]_vars

(***************************************************************************)
(* setup_profile.py and terminal_manager.py: the settings of Windows       *)
(* Terminal.  A settings file is the JSON value it holds: a dict with the  *)
(* top-level keys and, under "profiles", either a dict with the key "list" *)
(* or a list of profiles; a profile is a dict.  Strings that are searched  *)
(* are sequences of characters.                                            *)
(***************************************************************************)
MaxProfiles == 2   \* most profiles in settings.json
MaxRuns == 2       \* runs of the setup script that are followed

UpperCase ==
    [A |-> "a", B |-> "b", C |-> "c", D |-> "d", E |-> "e", F |-> "f", G
      |-> "g", H |-> "h", I |-> "i", J |-> "j", K |-> "k", L |-> "l", M
      |-> "m", N |-> "n", O |-> "o", P |-> "p", Q |-> "q", R |-> "r", S
      |-> "s", T |-> "t", U |-> "u", V |-> "v", W |-> "w", X |-> "x", Y
      |-> "y", Z |-> "z"]

\* str.lower()
LowerChar(c) == IF c \in DOMAIN UpperCase THEN UpperCase[c] ELSE c
Lower(str) == [k \in 1..Len(str) |-> LowerChar(str[k])]

\* the Python test `q in str`
Contains(str, q) ==
    \E k \in 0..(Len(str) - Len(q)) : SubSeq(str, k + 1, k + Len(q)) = q

PowerShell == <<"P", "o", "w", "e", "r", "S", "h", "e", "l", "l">>

ProfileNames ==
    {PowerShell,
     <<"W", "i", "n", "d", "o", "w", "s", " ", "P", "o", "w", "e", "r", "S", "h", "e", "l", "l">>,
     <<"p", "o", "w", "e", "r", "s", "h", "e", "l", "l">>,
     <<"c", "m", "d">>}

\* profile.get('name', '')
NameOf(profile) == IF "name" \in DOMAIN profile THEN profile["name"] ELSE <<>>

\* d[k] = v on a dict
SetKey(d, k, v) == [x \in DOMAIN d \cup {k} |-> IF x = k THEN v ELSE d[x]]

\* ApplyKwargs that rebuilds the profile from the keyword arguments
ReplaceByKwargs(profile, kwargs) == kwargs

\* for key, value in kwargs.items(): profile[key] = value
ApplyKwargs(profile, kwargs) ==
    [x \in DOMAIN profile \cup DOMAIN kwargs |->
        IF x \in DOMAIN kwargs THEN kwargs[x] ELSE profile[x]]

\* the list update_profile walks: data.get('profiles', {}), then its 'list'
\* when it is a dict; setup_profile.py takes a list as it is,
\* terminal_manager.py takes [] instead
ProfileList(variant, settings) ==
    IF "profiles" \notin DOMAIN settings THEN <<>>
    ELSE IF settings["profiles"].shape = "dict" THEN settings["profiles"].list
    ELSE IF variant = "setup_profile" THEN settings["profiles"].list
    ELSE <<>>

Matches(name_query, profile) ==
    Contains(Lower(NameOf(profile)), Lower(name_query))

\* update_profile up to the test of the count: the settings in memory
\* afterwards and whether a profile matched
update_profile(variant, settings, name_query, kwargs) ==
    LET p_list == ProfileList(variant, settings)
        hit == {k \in 1..Len(p_list) : Matches(name_query, p_list[k])}
        new_list == [k \in 1..Len(p_list) |->
                        IF k \in hit THEN ApplyKwargs(p_list[k], kwargs)
                        ELSE p_list[k]]
    IN  [updated |-> hit # {},
         data |-> IF hit = {} THEN settings
                  ELSE [settings EXCEPT !["profiles"].list = new_list]]

\* make_borderless that saves what it holds whether or not a profile matched
make_borderless_always_saves(settings) ==
    IF "profiles" \notin DOMAIN settings \/ settings["profiles"].shape # "dict"
    THEN [raised |-> TRUE, updated |-> FALSE, data |-> settings]
    ELSE [raised |-> FALSE, updated |-> TRUE,
          data |-> SetKey(settings, "launchMode", "maximized")]

\* make_borderless from its load to its save: whether it raised, whether
\* a profile matched, and the settings it holds at the end
make_borderless(settings) ==
    IF "profiles" \notin DOMAIN settings \/ settings["profiles"].shape # "dict"
    THEN [raised |-> TRUE, updated |-> FALSE, data |-> settings]
    ELSE LET d1 == SetKey(settings, "launchMode", "maximized")
             p_list == settings["profiles"].list
             hit == {k \in 1..Len(p_list) : Contains(NameOf(p_list[k]), PowerShell)}
             new_list == [k \in 1..Len(p_list) |->
                             IF k \in hit THEN SetKey(p_list[k], "padding", "0")
                             ELSE p_list[k]]
         IN  [raised |-> FALSE, updated |-> hit # {},
              data |-> [d1 EXCEPT !["profiles"].list = new_list]]

RetroOff == "experimental.retroTerminalEffect" :> FALSE

\* what install_lite_shader sets in a matching profile
LiteKwargs ==
    ("experimental.pixelShaderPath" :> "retro_lite.hlsl") @@ RetroOff

\* what switch_to_native_retro sets in a matching profile
RetroKwargs ==
    [opacity |-> 85, useAcrylic |-> TRUE] @@
    ("experimental.pixelShaderPath" :> "") @@
    ("experimental.retroTerminalEffect" :> TRUE)

\* install_lite_shader from its load to its save
install_lite_shader(settings) ==
    IF "profiles" \notin DOMAIN settings \/ settings["profiles"].shape # "dict"
    THEN [raised |-> TRUE, updated |-> FALSE, data |-> settings]
    ELSE LET p_list == settings["profiles"].list
             hit == {k \in 1..Len(p_list) : Contains(NameOf(p_list[k]), PowerShell)}
             new_list == [k \in 1..Len(p_list) |->
                             IF k \in hit THEN ApplyKwargs(p_list[k], LiteKwargs)
                             ELSE p_list[k]]
         IN  [raised |-> FALSE, updated |-> hit # {},
              data |-> [settings EXCEPT !["profiles"].list = new_list]]

\* switch_to_native_retro from its load to its save; it takes `profiles`
\* as a dict with a list or as a list, and a missing one as empty
switch_to_native_retro(settings) ==
    LET p_list == ProfileList("setup_profile", settings)
        hit == {k \in 1..Len(p_list) : Contains(NameOf(p_list[k]), PowerShell)}
        new_list == [k \in 1..Len(p_list) |->
                        IF k \in hit THEN ApplyKwargs(p_list[k], RetroKwargs)
                        ELSE p_list[k]]
    IN  [raised |-> FALSE, updated |-> hit # {},
         data |-> IF hit = {} THEN settings
                  ELSE [settings EXCEPT !["profiles"].list = new_list]]

\* the keyword arguments of the call in main()
MainKwargs ==
    [font |-> [face |-> "JetBrainsMono Nerd Font Mono", size |-> 13],
     opacity |-> 90,
     useAcrylic |-> TRUE] @@
    ("experimental.pixelShaderPath" :> "crt.hlsl") @@ RetroOff

(***************************************************************************)
(* The settings files the scripts can find.                                *)
(***************************************************************************)
Profiles ==
    {[padding |-> "8"], [opacity |-> 100, padding |-> "8"]} \cup
    {[name |-> n, padding |-> "8"] : n \in ProfileNames}

ProfileLists == UNION {[1..n -> Profiles] : n \in 0..MaxProfiles}

SettingsFiles ==
    {[theme |-> "dark"], [theme |-> "dark", launchMode |-> "default"]} \cup
    {[theme |-> "dark", profiles |-> [shape |-> sh, list |-> l]] :
        sh \in {"dict", "list"}, l \in ProfileLists}

(***************************************************************************)
(* main() of setup_profile.py, run after run.                              *)
(***************************************************************************)
SetupInit ==
    /\ DashInit
    /\ world = "any"
    /\ scan = NoScan
    /\ rel = NoRel
    /\ BuildIdle
    /\ disk \in {[settings |-> f, bak |-> NoFile] : f \in SettingsFiles \cup {NoFile}}
    /\ mem = NoMgr
    /\ spc = "borderless"
    /\ orig = disk.settings
    /\ runs = 1
    /\ last = NoMethod

\* the record of a run of one of the functions that edit settings.json
\* themselves: the file it found, whether it raised, whether it wrote
NoResult == [raised |-> FALSE, updated |-> FALSE]

ScriptRun(name, file, r) ==
    [call |-> name, before |-> file, raised |-> r.raised, wrote |-> r.updated]

\* install_shader(), then make_borderless(): without a settings file it
\* returns; it saves only when a profile matched; an error is not caught
MakeBorderless ==
    /\ spc = "borderless"
    /\ IF disk.settings = NoFile
       THEN /\ spc' = "manager"
            /\ disk' = disk
            /\ last' = ScriptRun("make_borderless", NoFile, NoResult)
       ELSE LET r == make_borderless(disk.settings)
            IN  /\ spc' = IF r.raised THEN "crashed" ELSE "manager"
                /\ disk' = IF r.updated THEN [disk EXCEPT !.settings = r.data]
                           ELSE disk
                /\ last' = ScriptRun("make_borderless", disk.settings, r)
    /\ UNCHANGED <<mem, orig, runs, dashVars, world, cycle, prev, scan, rel, buildVars>>

\* TerminalManager(): _find_settings_path, then _load_settings, which
\* copies the file to the backup when there is none and loads the file;
\* main() catches the FileNotFoundError
NewManager ==
    /\ spc = "manager"
    /\ IF disk.settings = NoFile
       THEN spc' = "link" /\ disk' = disk /\ mem' = mem
       ELSE /\ disk' = IF disk.bak = NoFile
                       THEN [disk EXCEPT !.bak = disk.settings] ELSE disk
            /\ mem' = disk.settings
            /\ spc' = "update"
    /\ UNCHANGED <<orig, runs, last, dashVars, world, cycle, prev, scan, rel, buildVars>>

\* manager.update_profile("PowerShell", ...), with its save
UpdateProfileMain ==
    /\ spc = "update"
    /\ LET r == update_profile("setup_profile", mem, PowerShell, MainKwargs)
       IN  /\ mem' = r.data
           /\ disk' = IF r.updated THEN [disk EXCEPT !.settings = r.data]
                      ELSE disk
           /\ last' = [call |-> "update_profile", variant |-> "setup_profile",
                       before |-> mem, name_query |-> PowerShell,
                       kwargs |-> MainKwargs]
    /\ spc' = "link"
    /\ UNCHANGED <<orig, runs, dashVars, world, cycle, prev, scan, rel, buildVars>>

\* link_powershell_profile() and the end of main()
LinkProfile ==
    /\ spc = "link"
    /\ spc' = "end"
    /\ UNCHANGED <<disk, mem, orig, runs, last, dashVars, world, cycle, prev, scan, rel, buildVars>>

\* the script is run again
RunAgain ==
    /\ spc \in {"end", "crashed"}
    /\ runs < MaxRuns
    /\ runs' = runs + 1
    /\ spc' = "borderless"
    /\ mem' = NoMgr
    /\ last' = NoMethod
    /\ UNCHANGED <<disk, orig, dashVars, world, cycle, prev, scan, rel, buildVars>>

SetupNext ==
    \/ MakeBorderless
    \/ NewManager
    \/ UpdateProfileMain
    \/ LinkProfile
    \/ RunAgain

SetupSpec == SetupInit /\ [][SetupNext]_vars

(***************************************************************************)
(* switch_to_lite_crt.py and switch_to_retro.py, run from the shell before *)
(* or after a run of setup_profile.py.                                     *)
(***************************************************************************)
AtShell == spc \in {"borderless", "end", "crashed"}

\* install_lite_shader(): the shader file, then settings.json
InstallLiteShader ==
    /\ AtShell
    /\ IF disk.settings = NoFile
       THEN /\ disk' = disk
            /\ last' = ScriptRun("install_lite_shader", NoFile, NoResult)
       ELSE LET r == install_lite_shader(disk.settings)
            IN  /\ disk' = IF r.updated THEN [disk EXCEPT !.settings = r.data]
                           ELSE disk
                /\ last' = ScriptRun("install_lite_shader", disk.settings, r)
    /\ UNCHANGED <<mem, spc, orig, runs, dashVars, world, cycle, prev, scan, rel, buildVars>>

\* switch_to_native_retro()
SwitchToNativeRetro ==
    /\ AtShell
    /\ IF disk.settings = NoFile
       THEN /\ disk' = disk
            /\ last' = ScriptRun("switch_to_native_retro", NoFile, NoResult)
       ELSE LET r == switch_to_native_retro(disk.settings)
            IN  /\ disk' = IF r.updated THEN [disk EXCEPT !.settings = r.data]
                           ELSE disk
                /\ last' = ScriptRun("switch_to_native_retro", disk.settings, r)
    /\ UNCHANGED <<mem, spc, orig, runs, dashVars, world, cycle, prev, scan, rel, buildVars>>

SwitchNext ==
    \/ SetupNext
    \/ InstallLiteShader
    \/ SwitchToNativeRetro

SwitchSpec == SetupInit /\ [][SwitchNext]_vars

(***************************************************************************)
(* A TerminalManager of either file with one call of a method on it.       *)
(***************************************************************************)
Variants == {"setup_profile", "terminal_manager"}

Queries == {PowerShell, <<"S", "H", "E", "L", "L">>, <<"c", "m", "d">>, <<>>}

KwargSets == {MainKwargs, RetroOff, [padding |-> "0"], [name |-> <<"p", "w", "s", "h">>, opacity |-> 90]}

\* TerminalManager(): settings.json is found and loaded; only
\* setup_profile.py makes the backup
ManagerInit ==
    /\ DashInit
    /\ world = "any"
    /\ scan = NoScan
    /\ rel = NoRel
    /\ BuildIdle
    /\ \E f \in SettingsFiles, v \in Variants :
          /\ disk = [settings |-> f,
                     bak |-> IF v = "setup_profile" THEN f ELSE NoFile]
          /\ mem = f
          /\ orig = f
          /\ last = [call |-> "__init__", variant |-> v]
    /\ spc = "api"
    /\ runs = 1

\* update_profile(name_query, **kwargs), with its save
CallUpdateProfile ==
    /\ spc = "api"
    /\ \E q \in Queries, kw \in KwargSets :
          LET r == update_profile(last.variant, mem, q, kw)
          IN  /\ mem' = r.data
              /\ disk' = IF r.updated THEN [disk EXCEPT !.settings = r.data]
                         ELSE disk
              /\ last' = [call |-> "update_profile", variant |-> last.variant,
                          before |-> mem, name_query |-> q, kwargs |-> kw]
    /\ spc' = "called"
    /\ UNCHANGED <<orig, runs, dashVars, world, cycle, prev, scan, rel, buildVars>>

\* set_global(**kwargs) of terminal_manager.py, with its save
CallSetGlobal ==
    /\ spc = "api"
    /\ last.variant = "terminal_manager"
    /\ \E kw \in {[launchMode |-> "maximized"], [theme |-> "light"]} :
          /\ mem' = ApplyKwargs(mem, kw)
          /\ disk' = [disk EXCEPT !.settings = mem']
          /\ last' = [call |-> "set_global", variant |-> last.variant,
                      before |-> mem, kwargs |-> kw]
    /\ spc' = "called"
    /\ UNCHANGED <<orig, runs, dashVars, world, cycle, prev, scan, rel, buildVars>>

ManagerNext ==
    \/ CallUpdateProfile
    \/ CallSetGlobal

ManagerSpec == ManagerInit /\ [][ManagerNext]_vars

(***************************************************************************)
(* build_lieutenant.py (build_and_start) and build_clicker.py              *)
(* (manage_clicker): kill the running clicker.exe, build, start the new    *)
(* one.  A subprocess.run of a program that is not on the PATH raises      *)
(* FileNotFoundError, which nothing catches.                               *)
(***************************************************************************)
MaxRc == 2   \* largest return code of cmake that is followed

ReturnCodes == 0..MaxRc

Scripts == {"build_lieutenant", "build_clicker"}

\* cwd/clicker.exe, cwd/build/clicker.exe, cwd/build/Release/clicker.exe
potential_paths == <<"cwd", "build", "build/Release">>

Jobs ==
    [script : Scripts,
     taskkill_on_path : BOOLEAN,
     cmake_on_path : BOOLEAN,
     cache : BOOLEAN,              \* build/CMakeCache.txt exists
     config_rc : ReturnCodes,
     build_rc : ReturnCodes,
     exes : SUBSET (1..Len(potential_paths))]   \* the paths that exist after the build

\* next((p for p in potential_paths if os.path.exists(p)), None)
TargetExe(j) ==
    IF j.exes = {} THEN 0
    ELSE CHOOSE k \in j.exes : \A m \in j.exes : k <= m

SysExit1 == [code |-> 1, by |-> "sys.exit"]
Traceback == [code |-> 1, by |-> "traceback"]
Returns == [code |-> 0, by |-> "return"]

BuildInit ==
    /\ DashInit
    /\ world = "any"
    /\ scan = NoScan
    /\ rel = NoRel
    /\ SetupIdle
    /\ job \in Jobs
    /\ bpc = "kill"
    /\ events = <<>>
    /\ status = Running

\* subprocess.run(["taskkill", ...]), its return code ignored, and the sleep
Kill ==
    /\ bpc = "kill"
    /\ IF job.taskkill_on_path
       THEN /\ events' = Append(events, [step |-> "kill"])
            /\ bpc' = IF job.script = "build_lieutenant" /\ ~job.cache
                      THEN "configure" ELSE "build"
            /\ status' = status
       ELSE /\ events' = events
            /\ bpc' = "exited"
            /\ status' = Traceback
    /\ UNCHANGED <<job, dashVars, world, cycle, prev, scan, rel, setupVars>>

\* build_and_start without build/CMakeCache.txt: cmake -S . -B build
Configure ==
    /\ bpc = "configure"
    /\ IF ~job.cmake_on_path
       THEN /\ events' = events
            /\ bpc' = "exited"
            /\ status' = Traceback
       ELSE /\ events' = Append(events, [step |-> "configure", rc |-> job.config_rc])
            /\ IF job.config_rc # 0
               THEN bpc' = "exited" /\ status' = SysExit1
               ELSE bpc' = "build" /\ status' = status
    /\ UNCHANGED <<job, dashVars, world, cycle, prev, scan, rel, setupVars>>

\* Build that goes on to the launch whatever cmake returned
BuildIgnoringStatus ==
    /\ bpc = "build"
    /\ job.cmake_on_path
    /\ events' = Append(events, [step |-> "build", rc |-> job.build_rc])
    /\ bpc' = "launch"
    /\ UNCHANGED <<status, job, dashVars, world, cycle, prev, scan, rel, setupVars>>

\* cmake --build build --config Release
Build ==
    /\ bpc = "build"
    /\ IF ~job.cmake_on_path
       THEN /\ events' = events
            /\ bpc' = "exited"
            /\ status' = Traceback
       ELSE /\ events' = Append(events, [step |-> "build", rc |-> job.build_rc])
            /\ IF job.build_rc # 0
               THEN bpc' = "exited" /\ status' = SysExit1
               ELSE bpc' = "launch" /\ status' = status
    /\ UNCHANGED <<job, dashVars, world, cycle, prev, scan, rel, setupVars>>

\* the search of the binary and subprocess.Popen([target_exe], ...)
Launch ==
    /\ bpc = "launch"
    /\ events' = IF TargetExe(job) # 0
                 THEN Append(events, [step |-> "launch",
                                      path |-> potential_paths[TargetExe(job)]])
                 ELSE events
    /\ bpc' = "exited"
    /\ status' = Returns
    /\ UNCHANGED <<job, dashVars, world, cycle, prev, scan, rel, setupVars>>

BuildNext ==
    \/ Kill
    \/ Configure
    \/ Build
    \/ Launch

BuildSpec == BuildInit /\ [][BuildNext]_vars

(***************************************************************************)
(* Vocabulary of the properties.                                           *)
(***************************************************************************)
Rendering == pcMain \in {"render", "done"}

\* the external call ran and reported nothing / did not succeed
FoundNothing(o) == Returned(o) /\ Strip(o.out) = <<>>
Failed(o) ==
    IF "kind" \in DOMAIN o
    THEN o.kind \in {"exit", "raise"} /\ ~Returned(o)
    ELSE o.exists /\ o.fail_at \in 1..Len(o.items)

\* the marker a slot would hold for a probe given up at the deadline
TimedOut == [status |-> "TimedOut"]

GhProbes == {"prs", "issues"}

(***************************************************************************)
(* C1: when rendering begins, and from then on, every probe thread has     *)
(* terminated, so the renderer never reads `data` with a probe pending.    *)
(***************************************************************************)
C1_RenderAfterAllProbes ==
    Rendering => \A p \in ProbeNames : pc[p] = "done"

C1_Witness ==
    /\ pcMain = "render"
    /\ \A p \in ProbeNames : pc[p] = "done"

(***************************************************************************)
(* C2: the main thread never waits for ever in its join phase: whenever it *)
(* is joining and at most one probe never returns, some thread can still   *)
(* take a step (a state in the join phase with no step left is a wait      *)
(* without end, and rendering is never reached).                           *)
(***************************************************************************)
C2_JoinNeverStuck ==
    (pcMain = "join" /\ Cardinality({p \in ProbeNames : pc[p] = "hung"}) <= 1)
        => ENABLED Next

(***************************************************************************)
(* C3: a probe that never finishes gets the TimedOut marker in its slot.   *)
(***************************************************************************)
C3_UnfinishedBecomesTimedOut ==
    \A p \in ProbeNames : (pc[p] = "hung") ~> (data[Slot(p)] = TimedOut)

(***************************************************************************)
(* C4: the snapshot handed to rendering has exactly one slot per probe     *)
(* name, N in all, and every slot was filled by its probe, whatever the    *)
(* probes' outcomes were.                                                  *)
(***************************************************************************)
C4_SnapshotComplete ==
    Rendering =>
        /\ DOMAIN data = ProbeNames
        /\ Cardinality(DOMAIN data) = N
        /\ \A p \in ProbeNames : ext[p] # NoCall /\ writes[p] >= 1

C4_Witness ==
    /\ pcMain = "render"
    /\ Failed(ext["online"])
    /\ FoundNothing(ext["prs"])
    /\ Failed(ext["issues"])
    /\ Returned(ext["handle"])
    /\ Cardinality(DOMAIN data) = N

(***************************************************************************)
(* C5: a gh query that succeeded and found nothing and a gh query that     *)
(* failed never leave the same value in their slots.                       *)
(***************************************************************************)
C5_EmptyDistinctFromFailure ==
    \A p \in GhProbes : \A q \in GhProbes :
        (/\ pc[p] = "done" /\ FoundNothing(ext[p])
         /\ pc[q] = "done" /\ Failed(ext[q]))
        => data[Slot(p)] # data[Slot(q)]

(***************************************************************************)
(* C6: when a probe fails, every other probe that has completed holds in   *)
(* its slot exactly the value its own call produced.                       *)
(***************************************************************************)
C6_FailureIsLocal ==
    \A p \in ProbeNames : \A q \in ProbeNames \ {p} :
        (Failed(ext[p]) /\ pc[q] = "done")
        => data[Slot(q)] = ProbeValue(q, ext[q], environ)

C6_Witness ==
    /\ pcMain = "done"
    /\ Failed(ext["online"])
    /\ Failed(ext["handle"])
    /\ data["prs"] = PyList(<<<<"a">>>>)
    /\ Len(data["projects"].list) = 2
    /\ screen # <<>>

(***************************************************************************)
(* C7: no two probe threads are inside data.update at the same time.       *)
(***************************************************************************)
C7_WritesMutuallyExclusive ==
    \A p \in ProbeNames : \A q \in ProbeNames \ {p} :
        ~(pc[p] = "update" /\ pc[q] = "update")

(***************************************************************************)
(* C8: the snapshot that is rendered is a function of the probes' results  *)
(* alone, the same for every interleaving of the probe threads.            *)
(***************************************************************************)
C8_OrderIndependent ==
    Rendering =>
        data = [p \in ProbeNames |-> ProbeValue(p, ext[p], environ)]

C8_Witness ==
    /\ pcMain = "render"
    /\ data["prs"] = PyList(<<<<"a">>>>)
    /\ data["issues"] = PyList(<<<<"a", "a">>>>)
    /\ data["online"] = PyBool(TRUE)

(***************************************************************************)
(* C9: every probe function is invoked at most once, exactly once when all *)
(* threads were started, and a probe thread that has terminated wrote its  *)
(* slot exactly once.                                                      *)
(***************************************************************************)
C9_AtMostOnce ==
    \A p \in ProbeNames :
        /\ calls[p] <= 1
        /\ writes[p] <= 1
        /\ pcMain \in {"sync", "join", "render", "done"} => calls[p] = 1
        /\ pc[p] = "done" => calls[p] = 1 /\ writes[p] = 1
        /\ Rendering => writes[p] = 1

C9_Witness ==
    /\ pcMain = "done"
    /\ \A p \in ProbeNames : calls[p] = 1 /\ writes[p] = 1
    /\ \E p \in ProbeNames : Failed(ext[p])

(***************************************************************************)
(* C10: every probe thread is started before the main thread reads the     *)
(* synchronous metrics or joins, and starting a thread never waits for     *)
(* another probe.                                                          *)
(***************************************************************************)
C10_AllStartedFirst ==
    /\ pcMain \in {"sync", "join", "render", "done"}
           => \A p \in ProbeNames : pc[p] # "new"
    /\ pcMain = "start" => ENABLED StartThread

C10_Witness ==
    /\ pcMain = "sync"
    /\ pc["handle"] = "hung"
    /\ pc["prs"] = "running"
    /\ pc["online"] = "running"

(***************************************************************************)
(* C11: once rendering has begun `data` is never written again: no step    *)
(* taken while the main thread renders or has rendered changes `data`.     *)
(***************************************************************************)
C11_FrozenOnceRendered ==
    [][Rendering => data' = data]_vars

C11_Witness ==
    /\ pcMain = "done"
    /\ screen = RenderScreen(data)
    /\ \A p \in ProbeNames : writes[p] = 1
    /\ data["prs"] # InitialData["prs"]

(***************************************************************************)
(* C16: two runs in which the probes got the same answers render snapshots *)
(* with the same keys and the same values, whatever the scheduling was.    *)
(***************************************************************************)
C16_SameResultsSameSnapshot ==
    (cycle > 1 /\ Rendering /\ prev.rendered /\ ext = prev.ext)
        => (DOMAIN data = DOMAIN prev.data /\ data = prev.data)

C16_Witness ==
    /\ cycle > 1
    /\ pcMain = "render"
    /\ prev.rendered
    /\ ext = prev.ext
    /\ data = prev.data
    /\ data["online"] = PyBool(TRUE)

(***************************************************************************)
(* C17: nothing is carried from one run to the next: in a later run a slot *)
(* holds its initial default until its probe has written it, and what is   *)
(* rendered is the value of this run's results, also for a probe that      *)
(* succeeded in the earlier run and fails in this one.                     *)
(***************************************************************************)
C17_NoStateAcrossCycles ==
    cycle > 1 =>
        /\ \A p \in ProbeNames :
              pc[p] # "done" => data[Slot(p)] = InitialData[Slot(p)]
        /\ DOMAIN data = DOMAIN InitialData
        /\ Rendering =>
              \A p \in ProbeNames :
                  data[Slot(p)] = ProbeValue(p, ext[p], environ)

C17_Witness ==
    /\ cycle > 1
    /\ pcMain = "render"
    /\ prev.rendered
    /\ prev.data["prs"] = PyList(<<<<"a">>>>)
    /\ Failed(ext["prs"])
    /\ data["prs"] = PyList(<<>>)

(***************************************************************************)
(* C12: no probe function lets an exception escape: whatever its external  *)
(* call did, a probe thread that got past the call holds a value of the    *)
(* type of its slot (a bool, a str, a list), never an error.               *)
(***************************************************************************)
SlotType(p) ==
    CASE p = "online" -> {"bool"}
      [] p = "handle" -> {"str"}
      [] OTHER -> {"list"}

Shows(section, t) == \E k \in DOMAIN section : section[k] = Text(t)

C13_FailureNotShownAsEmpty ==
    (pcMain = "done" /\ Truthy(data["online"]))
        => /\ Failed(ext["prs"]) => ~Shows(screen.github, "No open PRs")
           /\ Failed(ext["issues"]) => ~Shows(screen.github, "No pending issues")

(***************************************************************************)
(* C14: show_dashboard is left without rendering only because a probe      *)
(* thread could not be started: whenever it has failed, nothing was        *)
(* printed and some thread was never started.                              *)
(***************************************************************************)
C14_OnlyLaunchFailureIsFatal ==
    pcMain = "failed" =>
        /\ screen = <<>>
        /\ \E p \in ProbeNames : pc[p] = "new"

(***************************************************************************)
(* C15: for limit >= 0, get_recent_projects returns the repositories found *)
(* sorted by time, most recent first, min(limit, number found) of them,    *)
(* and none that was left out is more recent than one that was returned.   *)
(***************************************************************************)
Min(a, b) == IF a < b THEN a ELSE b

C15_MostRecentFirst ==
    scan.state = "returned" =>
        LET r == scan.result
            left == {f \in 1..Len(scan.found) :
                        \A k \in 1..Len(r) : r[k].name # scan.found[f].name}
        IN  /\ \A k \in 1..(Len(r) - 1) : r[k].time >= r[k + 1].time
            /\ Len(r) = Min(scan.limit, Len(scan.found))
            /\ \A k \in 1..Len(r) : \E f \in 1..Len(scan.found) :
                   r[k] = scan.found[f]
            /\ \A k \in 1..Len(r) : \A f \in left :
                   r[k].time >= scan.found[f].time

C15_Witness ==
    /\ scan.state = "returned"
    /\ Len(scan.found) = 3
    /\ scan.limit = 2
    /\ scan.found[1].time < scan.found[2].time
    /\ scan.found[2].time < scan.found[3].time
    /\ Len(scan.result) = 2
    /\ scan.result[1].name = 3

(***************************************************************************)
(* C19: whatever the number of runs of the setup script, the backup file,  *)
(* once it exists, holds the settings as they were before the first run.   *)
(***************************************************************************)
C19_BackupIsOriginal ==
    disk.bak # NoFile => disk.bak = orig

(***************************************************************************)
(* C18: after update_profile(name_query, **kwargs) every top-level setting *)
(* is as before, every profile whose name does not contain name_query      *)
(* (case-insensitively) is as before, and a profile whose name contains it *)
(* differs at most in the keys of kwargs; the file holds either what it    *)
(* held or what is in memory.                                              *)
(***************************************************************************)
ListOf(settings) == settings["profiles"].list

C18_OnlyKwargsOfMatching ==
    last.call = "update_profile" =>
        LET b == last.before
            kw == last.kwargs
        IN  /\ DOMAIN mem = DOMAIN b
            /\ \A k \in DOMAIN b \ {"profiles"} : mem[k] = b[k]
            /\ "profiles" \in DOMAIN b =>
                 /\ mem["profiles"].shape = b["profiles"].shape
                 /\ Len(ListOf(mem)) = Len(ListOf(b))
                 /\ \A i \in 1..Len(ListOf(b)) :
                      IF Matches(last.name_query, ListOf(b)[i])
                      THEN /\ DOMAIN ListOf(mem)[i] \subseteq
                                  DOMAIN ListOf(b)[i] \cup DOMAIN kw
                           /\ \A k \in DOMAIN ListOf(b)[i] \ DOMAIN kw :
                                /\ k \in DOMAIN ListOf(mem)[i]
                                /\ ListOf(mem)[i][k] = ListOf(b)[i][k]
                      ELSE ListOf(mem)[i] = ListOf(b)[i]
            /\ disk.settings \in {b, mem}

C18_Witness ==
    /\ last.call = "update_profile"
    /\ mem # last.before
    /\ disk.settings = mem
    /\ \E i, j \in 1..Len(ListOf(mem)) :
          /\ Matches(last.name_query, ListOf(last.before)[i])
          /\ DOMAIN ListOf(last.before)[i] \ DOMAIN last.kwargs # {}
          /\ ListOf(mem)[i] # ListOf(last.before)[i]
          /\ ~Matches(last.name_query, ListOf(last.before)[j])

(***************************************************************************)
(* C20: clicker.exe is launched only after a build that returned 0; the    *)
(* kill comes before the build and before the launch; and when the         *)
(* configuration or the build returned non-zero the script ends with exit  *)
(* status 1 and has launched nothing.                                      *)
(***************************************************************************)
Ran(step) == {k \in 1..Len(events) : events[k].step = step}

Precedes(a, b) == \A m \in Ran(b) : \E k \in Ran(a) : k < m

ReturnedNonZero(step) == \E k \in Ran(step) : events[k].rc # 0

C20_LaunchOnlyAfterGoodBuild ==
    /\ \A m \in Ran("launch") :
          \E k \in Ran("build") : k < m /\ events[k].rc = 0
    /\ Precedes("kill", "build")
    /\ Precedes("kill", "launch")
    /\ Precedes("kill", "configure")
    /\ (ReturnedNonZero("configure") \/ ReturnedNonZero("build")) =>
          /\ bpc = "exited"
          /\ status.code = 1
          /\ Ran("launch") = {}

C20_Witness ==
    /\ job.script = "build_lieutenant"
    /\ Ran("configure") # {}
    /\ Ran("launch") # {}
    /\ job.exes # {1}
    /\ status = Returns

(***************************************************************************)
(* C21: on the rendered screen the titles PULL REQUESTS and ISSUES appear  *)
(* exactly when the `online` slot is true; when it is false the GitHub     *)
(* part is the one line GITHUB DISCONNECTED and the screen is the same     *)
(* whatever the `prs` and `issues` slots hold.                             *)
(***************************************************************************)
C21_GitHubSectionsIffOnline ==
    pcMain = "done" =>
        /\ Shows(screen.github, "PULL REQUESTS") <=> data["online"] = PyBool(TRUE)
        /\ Shows(screen.github, "ISSUES") <=> data["online"] = PyBool(TRUE)
        /\ Shows(screen.github, "GITHUB DISCONNECTED") <=> data["online"] = PyBool(FALSE)
        /\ data["online"] = PyBool(FALSE) =>
             /\ screen.github = <<Text("GITHUB DISCONNECTED")>>
             /\ \A x, y \in {PyList(<<>>), data["prs"], data["issues"]} :
                   RenderScreen([data EXCEPT !["prs"] = x, !["issues"] = y]) = screen

C21_Witness ==
    /\ pcMain = "done"
    /\ data["online"] = PyBool(FALSE)
    /\ Truthy(data["prs"])
    /\ Truthy(data["issues"])
    /\ data["prs"] # data["issues"]
    /\ screen.github = <<Text("GITHUB DISCONNECTED")>>

(***************************************************************************)
(* C22: a run of make_borderless, install_lite_shader or                   *)
(* switch_to_native_retro has written settings.json exactly when the       *)
(* profiles it went through include one whose name contains "PowerShell";  *)
(* when there is none the file holds what it held before the run, without  *)
(* the launchMode that make_borderless set in memory.                      *)
(***************************************************************************)
SettingsScripts == {"make_borderless", "install_lite_shader", "switch_to_native_retro"}

\* the profiles the function of that name goes through in a settings file
Walked(name, file) ==
    IF file = NoFile \/ "profiles" \notin DOMAIN file THEN <<>>
    ELSE IF file["profiles"].shape = "dict" \/ name = "switch_to_native_retro"
         THEN file["profiles"].list
         ELSE <<>>

FoundPowerShell(name, file) ==
    \E k \in 1..Len(Walked(name, file)) :
        Contains(NameOf(Walked(name, file)[k]), PowerShell)

C22_WrittenIffPowerShellFound ==
    last.call \in SettingsScripts =>
        /\ last.wrote <=> FoundPowerShell(last.call, last.before)
        /\ ~FoundPowerShell(last.call, last.before) => disk.settings = last.before
        /\ (last.wrote /\ last.call = "make_borderless") =>
              disk.settings["launchMode"] = "maximized"

C22_Witness ==
    /\ last.call = "make_borderless"
    /\ ~last.raised
    /\ ~last.wrote
    /\ last.before # NoFile
    /\ Len(Walked(last.call, last.before)) > 0
    /\ "launchMode" \notin DOMAIN disk.settings

(***************************************************************************)
(* C23: for an age of delta >= 0 seconds get_relative_time gives minutes   *)
(* when delta < 3600, hours when 3600 <= delta < 86400 and days when       *)
(* delta >= 86400, so the number before 'h' or 'd' is at least 1.          *)
(***************************************************************************)
C23_UnitsAndNeverZero ==
    rel.call = "returned" =>
        /\ rel.out.unit = "m" <=> rel.delta < 3600
        /\ rel.out.unit = "h" <=> (3600 <= rel.delta /\ rel.delta < 86400)
        /\ rel.out.unit = "d" <=> rel.delta >= 86400
        /\ rel.out.unit \in {"h", "d"} => rel.out.number >= 1

====
